---- MODULE Spec2Model ----
(***************************************************************************)
(* Model of gbdxtools/ipe/util.py: the TOA calibration functions           *)
(* (calc_toa_gain_offset_new, calc_toa_gain_offset) and the two geometric  *)
(* transforms (RatPolyTransform, AffineTransform).                         *)
(*                                                                         *)
(* Python floats are modelled as exact rationals [n, d] (d > 0, lowest     *)
(* terms); float rounding is outside the model.  numpy arrays are records  *)
(* [shape, data] with data a nested tuple in row-major order.  A call's    *)
(* outcome is [ok |-> TRUE, val |-> v] or [ok |-> FALSE, err |-> name].    *)
(***************************************************************************)
EXTENDS Integers, Sequences, FiniteSets, TLC

VARIABLES
    meta,    \* calibration: the metadata dict handed to calc_toa_gain_offset*
    table,   \* calibration: constants.DG_ABSCAL_GAIN / _OFFSET / DG_ESUN
    toa,     \* calibration: what the call returned (None before the call)
    heap,    \* transforms: the transform objects that exist, by identity
    last,    \* transforms: the last call made: op, receiver, arguments, outcome
    pc,      \* threads: each thread's position inside the method it called
    treq,    \* threads: each thread's call: method and arguments
    tres     \* threads: each thread's returned value (None while running)

vars == <<meta, table, toa, heap, last, pc, treq, tres>>

\* ------------------------------------------------------------------ bounds
MaxBands == 3
MaxObjs == 3
MaxN == 2
NumThreads == 2

None == [none |-> TRUE]
Ok(v) == [ok |-> TRUE, val |-> v]
Raise(e) == [ok |-> FALSE, err |-> e]

Min(a, b) == IF a <= b THEN a ELSE b
Abs(a) == IF a < 0 THEN -a ELSE a

\* ------------------------------------------------- floats as exact rationals
RECURSIVE GCD(_, _)
GCD(a, b) == IF b = 0 THEN a ELSE GCD(b, a % b)

Q(n, d) ==
    LET s == IF d < 0 THEN -1 ELSE 1
        g == GCD(Abs(n), Abs(d))
    IN  [n |-> (s * n) \div g, d |-> (s * d) \div g]
R(i) == [n |-> i, d |-> 1]
RAdd(x, y) == Q(x.n * y.d + y.n * x.d, x.d * y.d)
RNeg(x) == [n |-> -x.n, d |-> x.d]
RSub(x, y) == RAdd(x, RNeg(y))
RMul(x, y) == Q(x.n * y.n, x.d * y.d)
RDiv(x, y) == Q(x.n * y.d, x.d * y.n)
\* ndarray.astype(np.int32): truncation toward zero
Trunc(x) == IF x.n >= 0 THEN x.n \div x.d ELSE -((-x.n) \div x.d)

\* ------------------------------------------------------------- calibration
\* numpy broadcasting of two 1-d arrays under a binary ufunc f
Broadcastable(a, b) == Len(a) = Len(b) \/ Len(a) = 1 \/ Len(b) = 1
BroadcastLen(a, b) == IF Len(a) = 1 THEN Len(b) ELSE Len(a)
At(a, i) == IF Len(a) = 1 THEN a[1] ELSE a[i]

\* izip / zip: stops at the shortest argument
Zip3(a, b, c) ==
    [i \in 1..Min(Len(a), Min(Len(b), Len(c))) |-> <<a[i], b[i], c[i]>>]

\* the arithmetic shared by both metadata shapes (util.py 74-95, 113-140)
ToaTriples(acf, ebw, gain, offset, e_sun, des2pi, cosT) ==
    IF ~Broadcastable(acf, ebw) THEN Raise("ValueError")
    ELSE LET ratio == [i \in 1..BroadcastLen(acf, ebw) |-> RDiv(At(acf, i), At(ebw, i))]
         IN  IF ~Broadcastable(ratio, gain) THEN Raise("ValueError")
             ELSE LET scale == [i \in 1..BroadcastLen(ratio, gain) |->
                                    RMul(At(ratio, i), At(gain, i))]
                      scale2 == [i \in 1..Len(e_sun) |->
                                    RDiv(des2pi, RMul(e_sun[i], cosT))]
                  IN  Ok(Zip3(scale, scale2, offset))

\* str.upper() on the satellite and band identifiers
Upper(s) ==
    CASE s = "wv02" -> "WV02"
      [] s = "ms" -> "MS"
      [] s = "p" -> "P"
      [] OTHER -> s

\* meta['satid'].upper() + "_" + meta['bandid'].upper()
LegacyKey(m) == <<Upper(m.satid), Upper(m.bandid)>>
\* meta["sensorAlias"], e.g. "WV02_MS", read as the same pair
AliasKey(m) == m.sensorAlias

calc_toa_gain_offset_new(m, t) ==
    LET k == AliasKey(m)
    IN  IF k \notin DOMAIN t THEN Raise("KeyError")
        ELSE ToaTriples(m.absoluteCalibrationFactors, m.effectiveBandwidths,
                        t[k].gain, t[k].offset, t[k].e_sun, m.des2pi, m.cosT)

calc_toa_gain_offset(m, t) ==
    LET k == LegacyKey(m)
    IN  IF k \notin DOMAIN t THEN Raise("KeyError")
        ELSE ToaTriples(m.abscalfactor, m.effbandwidth,
                        t[k].gain, t[k].offset, t[k].e_sun, m.des2pi, m.cosT)

\* ---- calibration: inputs and the two entry points as actions
AcfVals == {R(2), R(3)}
EbwVals == {R(1), R(2)}
SunVals == {R(3)}                 \* d_es ** 2 * np.pi, from ephem
CosVals == {Q(1, 2), R(1)}        \* np.cos(np.deg2rad(theta_s))
TableKeys == {<<"WV02", "MS">>, <<"WV02", "P">>}

\* one entry of the constants table, with len values per band
TableEntry(len) ==
    [gain |-> [i \in 1..len |-> Q(i, 2)],
     offset |-> [i \in 1..len |-> R(-i)],
     e_sun |-> [i \in 1..len |-> R(i + 1)]]
Tables == {[k \in TableKeys |-> IF k[2] = "MS" THEN TableEntry(l) ELSE TableEntry(1)] :
              l \in 1..MaxBands}

NewMetas ==
    UNION {[shape : {"new"}, sensorAlias : TableKeys,
            absoluteCalibrationFactors : [1..nb -> AcfVals],
            effectiveBandwidths : [1..nb -> EbwVals],
            des2pi : SunVals, cosT : CosVals] : nb \in 1..MaxBands}
LegacyMetas ==
    UNION {[shape : {"legacy"}, satid : {"wv02", "WV02"}, bandid : {"ms", "P"},
            abscalfactor : [1..nb -> AcfVals],
            effbandwidth : [1..nb -> EbwVals],
            des2pi : SunVals, cosT : CosVals] : nb \in 1..MaxBands}

IdleCal == meta = None /\ table = None /\ toa = None
IdleTransforms == heap = <<>> /\ last = None
IdleThreads == pc = <<>> /\ treq = <<>> /\ tres = <<>>

InitCal ==
    /\ meta \in NewMetas \cup LegacyMetas
    /\ table \in Tables
    /\ toa = None
    /\ IdleTransforms /\ IdleThreads

CalcToaNew ==
    /\ meta.shape = "new" /\ toa = None
    /\ toa' = calc_toa_gain_offset_new(meta, table)
    /\ UNCHANGED <<meta, table, heap, last, pc, treq, tres>>

CalcToaLegacy ==
    /\ meta.shape = "legacy" /\ toa = None
    /\ toa' = calc_toa_gain_offset(meta, table)
    /\ UNCHANGED <<meta, table, heap, last, pc, treq, tres>>

NextCal == CalcToaNew \/ CalcToaLegacy
SpecCal == InitCal /\ [][NextCal]_vars

\* the per-band inputs and the table entry of the call in the current state
MetaAcf == IF meta.shape = "new" THEN meta.absoluteCalibrationFactors ELSE meta.abscalfactor
MetaEbw == IF meta.shape = "new" THEN meta.effectiveBandwidths ELSE meta.effbandwidth
MetaEntry == table[IF meta.shape = "new" THEN AliasKey(meta) ELSE LegacyKey(meta)]
Returned == toa # None /\ toa.ok

\* C6: whenever compute_toa_gain_offset returns, it returns one triple per
\* input band, and triple i is (acf[i]/ebw[i]*gain[i], des2pi/(e_sun[i]*cos), offset[i]).
C6_OneTriplePerBand ==
    Returned =>
        /\ Len(toa.val) = Len(MetaAcf)
        /\ \A i \in 1..Len(MetaAcf) :
              /\ i <= Len(MetaEntry.gain)
              /\ toa.val[i] = <<RMul(RDiv(MetaAcf[i], MetaEbw[i]), MetaEntry.gain[i]),
                                RDiv(meta.des2pi, RMul(MetaEntry.e_sun[i], meta.cosT)),
                                MetaEntry.offset[i]>>

\* the same statement restricted to calls whose band count equals the table
\* entry's length (holds; shows the violation is the length mismatch alone)
C6_WhenLengthsAgree ==
    (Returned /\ Len(MetaAcf) = Len(MetaEntry.gain)) => C6_OneTriplePerBand

\* =================================================================
\* Geometric transforms
\* =================================================================

\* ---- vectors of floats
VSub(u, v) == [i \in 1..Len(u) |-> RSub(u[i], v[i])]
VMul(u, v) == [i \in 1..Len(u) |-> RMul(u[i], v[i])]
VDiv(u, v) == [i \in 1..Len(u) |-> RDiv(u[i], v[i])]
VNeg(u) == [i \in 1..Len(u) |-> RNeg(u[i])]
VRecip(u) == [i \in 1..Len(u) |-> RDiv(R(1), u[i])]
\* the sum of u[i] * v[i] over lo..hi, by halves
RECURSIVE DotRange(_, _, _, _)
DotRange(u, v, lo, hi) ==
    IF lo = hi THEN RMul(u[lo], v[lo])
    ELSE LET mid == (lo + hi) \div 2
         IN  RAdd(DotRange(u, v, lo, mid), DotRange(u, v, mid + 1, hi))
\* np.dot / np.inner of two vectors
Dot(u, v) == DotRange(u, v, 1, Len(u))

\* ---- Python values handed in by callers: [kind, v]
\*   int, float: v holds the one number; tuple, list: v the elements;
\*   ndarray: v a one-dimensional array's elements; str, NoneType: no numbers
PyNum(k, x) == [kind |-> k, v |-> <<x>>]
PySeq(k, xs) == [kind |-> k, v |-> xs]
PyNone == [kind |-> "NoneType", v |-> <<>>]
PyStr == [kind |-> "str", v |-> <<>>]

IsScalar(o) == o.kind \in {"int", "float"}
\* isinstance(other, collections.Sequence): list, tuple, str; not numpy.ndarray
IsSequence(o) == o.kind \in {"list", "tuple", "str"}
PyLen(o) == Len(o.v)

\* unary minus, -other: defined for numbers and arrays, TypeError otherwise
PyNeg(o) ==
    IF IsScalar(o) THEN Ok(PyNum(o.kind, RNeg(o.v[1])))
    ELSE IF o.kind = "ndarray" THEN Ok(PySeq("ndarray", VNeg(o.v)))
    ELSE Raise("TypeError")

\* [-e for e in other]: needs an iterable of numbers
PyListNeg(o) ==
    IF o.kind \in {"list", "tuple", "ndarray"} THEN Ok(PySeq("list", VNeg(o.v)))
    ELSE Raise("TypeError")

\* ---- the affine package: Affine is the 2x3 matrix (a b c / d e f)
Aff(a, b, c, d, e, f) == [a |-> a, b |-> b, c |-> c, d |-> d, e |-> e, f |-> f]
AffIdentity == Aff(R(1), R(0), R(0), R(0), R(1), R(0))
\* Affine.translation(xoff, yoff)
AffTranslation(x, y) == Aff(R(1), R(0), x, R(0), R(1), y)
\* Affine.from_gdal(c, a, b, f, d, e)
AffFromGdal(c, a, b, f, d, e) == Aff(a, b, c, d, e, f)
\* Affine * Affine
AffMul(m, o) ==
    Aff(RAdd(RMul(m.a, o.a), RMul(m.b, o.d)),
        RAdd(RMul(m.a, o.b), RMul(m.b, o.e)),
        RAdd(RAdd(RMul(m.a, o.c), RMul(m.b, o.f)), m.c),
        RAdd(RMul(m.d, o.a), RMul(m.e, o.d)),
        RAdd(RMul(m.d, o.b), RMul(m.e, o.e)),
        RAdd(RAdd(RMul(m.d, o.c), RMul(m.e, o.f)), m.f))
\* Affine * (x, y)
AffApply(m, x, y) ==
    <<RAdd(RAdd(RMul(x, m.a), RMul(y, m.b)), m.c),
      RAdd(RAdd(RMul(x, m.d), RMul(y, m.e)), m.f)>>
AffDet(m) == RSub(RMul(m.a, m.e), RMul(m.b, m.d))
\* ~Affine: TransformNotInvertibleError on a degenerate matrix
AffInvert(m) ==
    IF AffDet(m) = R(0) THEN Raise("TransformNotInvertibleError")
    ELSE LET idet == RDiv(R(1), AffDet(m))
             ra == RMul(m.e, idet)
             rb == RMul(RNeg(m.b), idet)
             rd == RMul(RNeg(m.d), idet)
             re == RMul(m.a, idet)
         IN  Ok(Aff(ra, rb, RSub(RMul(RNeg(m.c), ra), RMul(m.f, rb)),
                    rd, re, RSub(RMul(RNeg(m.c), rd), RMul(m.f, re))))

\* ---- RatPolyTransform
NTerms == 20
\* a coefficient row with a single 1, at term k of the 20-term basis
Unit(k) == [i \in 1..NTerms |-> IF i = k THEN R(1) ELSE R(0)]
VAdd(u, v) == [i \in 1..Len(u) |-> RAdd(u[i], v[i])]

\* np.dot(pinv(np.dot(A.T, A)), A.T) for A with orthonormal rows, where
\* A.T A is a projection, its own pseudo-inverse, and the product is A.T
FitInverse(A) == [t \in 1..NTerms |-> <<A[1][t], A[2][t]>>]

\* a transform object; born is the model's record of the call that made it
RatPolyObj(A, B, offset, scale, px_offset, px_scale, proj, born) ==
    [cls |-> "RatPolyTransform", proj |-> proj,
     A |-> A, B |-> B, offset |-> offset, scale |-> scale,
     px_offset |-> px_offset, px_scale |-> px_scale,
     offscl |-> <<offset, scale>>,
     offscl_rev |-> <<VDiv(VNeg(offset), scale), VRecip(scale)>>,
     px_offscl_rev |-> <<px_offset, px_scale>>,
     px_offscl |-> <<VDiv(VNeg(px_offset), px_scale), VRecip(px_scale)>>,
     A_rev |-> FitInverse(A),
     born |-> born]

AffineObj(affine, proj, born) ==
    [cls |-> "AffineTransform", affine |-> affine, iaffine |-> None,
     proj |-> proj, born |-> born]

\* born: the constructor's caller, the receiver's identity (filled in by the
\* action) and the shift __add__ was given
Built(op, shift) == [op |-> op, parent |-> 0, shift |-> shift]

from_rpcs(rpcs) ==
    LET P == <<rpcs.lineNumCoefs, rpcs.sampleNumCoefs>>
        Qd == <<rpcs.lineDenCoefs, rpcs.sampleDenCoefs>>
        scale == <<RDiv(R(1), rpcs.lonScale), RDiv(R(1), rpcs.latScale),
                   RDiv(R(1), rpcs.heightScale)>>
        offset == VMul(<<RNeg(rpcs.lonOffset), RNeg(rpcs.latOffset),
                                RNeg(rpcs.heightOffset)>>, scale)
        px_scale == <<rpcs.lineScale, rpcs.sampleScale>>
        px_offset == <<rpcs.lineOffset, rpcs.sampleOffset>>
    IN  RatPolyObj(P, Qd, offset, scale, px_offset, px_scale,
                   rpcs.spatialReferenceSystem, Built("from_rpcs", <<>>))

from_georef(georef) ==
    AffineObj(AffFromGdal(georef.translateX, georef.scaleX, georef.shearX,
                          georef.translateY, georef.shearY, georef.scaleY),
              georef.spatialReferenceSystemCode, Built("from_georef", <<>>))

\* ---- translate: __add__ and __sub__
\* mutant of RatPolyAdd: the two pixel arguments of the constructor swapped
RatPolyAddSwapped(self, other) ==
    IF IsSequence(other) /\ PyLen(other) = 2
    THEN Ok(RatPolyObj(self.A, self.B, self.offset, self.scale,
                       self.px_scale, VSub(self.px_offset, other.v),
                       None, Built("__add__", other.v)))
    ELSE Raise("TypeError")

\* mutant of AffineAdd: the new object takes over the receiver's cached inverse
AffineAddInherit(self, other) ==
    IF IsSequence(other) /\ PyLen(other) = 2
    THEN Ok([AffineObj(AffMul(self.affine, AffTranslation(other.v[1], other.v[2])),
                       self.proj, Built("__add__", other.v))
                EXCEPT !.iaffine = self.iaffine])
    ELSE Raise("TypeError")

RatPolyAdd(self, other) ==
    IF IsSequence(other) /\ PyLen(other) = 2
    THEN Ok(RatPolyObj(self.A, self.B, self.offset, self.scale,
                       VSub(self.px_offset, other.v), self.px_scale,
                       None, Built("__add__", other.v)))
    ELSE Raise("TypeError")       \* raise NotImplemented: not an exception

AffineAdd(self, other) ==
    IF IsSequence(other) /\ PyLen(other) = 2
    THEN Ok(AffineObj(AffMul(self.affine, AffTranslation(other.v[1], other.v[2])),
                      self.proj, Built("__add__", other.v)))
    ELSE Raise("TypeError")

TfAdd(self, other) ==
    IF self.cls = "RatPolyTransform" THEN RatPolyAdd(self, other)
    ELSE AffineAdd(self, other)

\* try: return self.__add__(-other)
\* except: return self.__add__([-e for e in other])
TfSub(self, other) ==
    LET neg == PyNeg(other)
        first == IF neg.ok THEN TfAdd(self, neg.val) ELSE neg
        lst == PyListNeg(other)
    IN  IF first.ok THEN first
        ELSE IF lst.ok THEN TfAdd(self, lst.val) ELSE lst

\* ---- numpy arrays: [shape, data], data nested row-major
Arr(shape, data) == [shape |-> shape, data |-> data]
NDim(a) == Len(a.shape)

\* np.asarray of a list of equally shaped arrays
Stack(children) ==
    IF Len(children) = 0 THEN Arr(<<0>>, <<>>)
    ELSE Arr(<<Len(children)>> \o children[1].shape,
             [i \in 1..Len(children) |-> children[i].data])

\* np.transpose: the axes reversed
Transpose(a) ==
    IF NDim(a) = 2
    THEN Arr(<<a.shape[2], a.shape[1]>>,
             [j \in 1..a.shape[2] |-> [i \in 1..a.shape[1] |-> a.data[i][j]]])
    ELSE IF NDim(a) = 3
    THEN Arr(<<a.shape[3], a.shape[2], a.shape[1]>>,
             [k \in 1..a.shape[3] |-> [j \in 1..a.shape[2] |->
                 [i \in 1..a.shape[1] |-> a.data[i][j][k]]]])
    ELSE a

\* np.hsplit(coords, 2) of an N x 2 array: two N x 1 arrays
HSplit2(a) ==
    <<Arr(<<a.shape[1], 1>>, [i \in 1..a.shape[1] |-> <<a.data[i][1]>>]),
      Arr(<<a.shape[1], 1>>, [i \in 1..a.shape[1] |-> <<a.data[i][2]>>])>>

\* ---- RatPolyTransform.fwd
\* the scalar branch (util.py 203-206): a (lon, lat, height) vector
FwdPoint(self, x, y) ==
    LET coord == <<x, y>>
        normed == [k \in 1..2 |->
                      RAdd(self.px_offscl[1][k], RMul(self.px_offscl[2][k], coord[k]))]
        c3 == [k \in 1..3 |-> Dot(self.A_rev[k + 1], normed)]
    IN  Arr(<<3>>, [k \in 1..3 |->
                      RAdd(self.offscl_rev[1][k], RMul(self.offscl_rev[2][k], c3[k]))])

\* the sequence branch (util.py 199-202) over nd nested levels; x and y are
\* nested tuples, z is None or [seq |-> a sequence]; izip stops at the shortest
ZLen(x, z) == IF z = None THEN Len(x) ELSE Len(z.seq)
ZipLen(x, y, z) == Min(Len(x), Min(Len(y), ZLen(x, z)))

RECURSIVE RatPolyFwd(_, _, _, _, _)
RatPolyFwd(self, nd, x, y, z) ==
    IF nd = 0 THEN FwdPoint(self, x, y)
    ELSE Transpose(Stack([i \in 1..ZipLen(x, y, z) |->
                             RatPolyFwd(self, nd - 1, x[i], y[i], None)]))

\* ---- RatPolyTransform.rev
\* _rpc: the 20-term cubic basis of (L, P, H)
Rpc(L, P, H) ==
    <<R(1), L, P, H, RMul(L, P), RMul(L, H), RMul(P, H),
      RMul(L, L), RMul(P, P), RMul(H, H),
      RMul(RMul(L, P), H), RMul(RMul(L, L), L), RMul(L, RMul(P, P)),
      RMul(L, RMul(H, H)), RMul(RMul(L, L), P), RMul(RMul(P, P), P),
      RMul(P, RMul(H, H)), RMul(RMul(L, L), H), RMul(RMul(P, P), H),
      RMul(RMul(H, H), H)>>

\* one grid cell of rev (util.py 190-196): the (line, sample) pair, cast to int32
RevPoint(self, lng, lat, z) ==
    LET coord == <<lng, lat, z>>
        normed == [k \in 1..3 |->
                      RAdd(RMul(coord[k], self.offscl[2][k]), self.offscl[1][k])]
        X == Rpc(normed[1], normed[2], normed[3])
        result == [r \in 1..2 |-> RDiv(Dot(self.A[r], X), Dot(self.B[r], X))]
    IN  [r \in 1..2 |->
            Trunc(RAdd(RMul(result[r], self.px_offscl_rev[2][r]),
                       self.px_offscl_rev[1][r]))]

\* np.array([var]) of a number or a tuple
WrapArray(o) ==
    IF IsScalar(o) THEN Arr(<<1>>, o.v) ELSE Arr(<<1, Len(o.v)>>, <<o.v>>)
\* a one-dimensional ndarray argument as an array
AsArr(o) == Arr(<<Len(o.v)>>, o.v)
\* np.atleast_3d inside np.dstack: (N,) is read as (1, N, 1), (M, N) as (M, N, 1)
Rows(a) == IF NDim(a) = 1 THEN <<a.data>> ELSE a.data
GridShape(a) == IF NDim(a) = 1 THEN <<1, a.shape[1]>> ELSE a.shape

\* .squeeze() of a (2, M, N) array
Squeeze(M, N, d) ==
    IF M = 1 /\ N = 1 THEN Arr(<<2>>, [r \in 1..2 |-> d[r][1][1]])
    ELSE IF M = 1 THEN Arr(<<2, N>>, [r \in 1..2 |-> d[r][1]])
    ELSE IF N = 1 THEN Arr(<<2, M>>, [r \in 1..2 |-> [m \in 1..M |-> d[r][m][1]]])
    ELSE Arr(<<2, M, N>>, d)

RevGrid(self, lngA, latA) ==
    IF GridShape(lngA) # GridShape(latA)
    THEN Raise("ValueError")      \* np.dstack: dimensions must match
    ELSE LET M == GridShape(lngA)[1]
             N == GridShape(lngA)[2]
             px == [m \in 1..M |-> [n \in 1..N |->
                      RevPoint(self, Rows(lngA)[m][n], Rows(latA)[m][n], R(0))]]
         IN  Ok(Squeeze(M, N, [r \in 1..2 |-> [m \in 1..M |-> [n \in 1..N |->
                                                  px[m][n][r]]]]))

RatPolyRev(self, lng, lat) ==
    IF lng.kind \in {"int", "float", "tuple"} /\ lat.kind \in {"int", "float", "tuple"}
    THEN RevGrid(self, WrapArray(lng), WrapArray(lat))
    ELSE IF ~(lng.kind = "ndarray" /\ lat.kind = "ndarray")
    THEN Raise("ValueError")
    ELSE RevGrid(self, AsArr(lng), AsArr(lat))

\* ---- the batch entry points; coords is [kind, shape, data]
Coords(kind, shape, data) == [kind |-> kind, shape |-> shape, data |-> data]

RatPolyCall(self, coords) ==
    IF coords.kind # "ndarray" THEN Raise("AssertionError")
    ELSE IF Len(coords.shape) # 2
    THEN Raise("NotImplementedError")   \* ValueError unpacking shape, caught
    ELSE IF coords.shape[2] # 2
    THEN Raise("AssertionError")        \* assert d1 == 2: not caught
    ELSE LET xy == HSplit2(coords)
         IN  Ok(RatPolyFwd(self, 2, xy[1].data, xy[2].data, None))

ShapeOk(coords) ==
    coords.kind = "ndarray" /\ Len(coords.shape) = 2 /\ coords.shape[2] = 2

\* Affine.itransform on the copy, row by row
ITransform(m, coords) ==
    Arr(coords.shape,
        [i \in 1..coords.shape[1] |-> AffApply(m, coords.data[i][1], coords.data[i][2])])

\* mutant of AffineCall: the assert accepts two columns or more
AffineCallWide(self, coords) ==
    IF coords.kind = "ndarray" /\ Len(coords.shape) = 2 /\ coords.shape[2] >= 2
    THEN Ok(ITransform(self.affine, coords))
    ELSE Raise("AssertionError")

AffineCall(self, coords) ==
    IF ~ShapeOk(coords) THEN Raise("AssertionError")
    ELSE Ok(ITransform(self.affine, coords))

\* if self._iaffine is None: self._iaffine = ~self._affine
\* the receiver after the statement, or the error ~ raised
\* mutant of StoreCache: a store over a filled cache clears it
StoreCacheClearing(self, inv) ==
    [self EXCEPT !.iaffine = IF self.iaffine = None THEN inv ELSE None]

\* self._iaffine = <the inverse just computed>
StoreCache(self, inv) == [self EXCEPT !.iaffine = inv]

FillCache(self) ==
    IF self.iaffine # None THEN Ok(self)
    ELSE LET inv == AffInvert(self.affine)
         IN  IF inv.ok THEN Ok(StoreCache(self, inv.val)) ELSE inv

\* the methods that may write the cache return [out, self]: outcome, receiver after
AffineInverse(self, coords) ==
    IF ~ShapeOk(coords) THEN [out |-> Raise("AssertionError"), self |-> self]
    ELSE LET filled == FillCache(self)
         IN  IF ~filled.ok THEN [out |-> filled, self |-> self]
             ELSE [out |-> Ok(ITransform(filled.val.iaffine, coords)),
                   self |-> filled.val]

AffineRev(self, lng, lat) ==
    LET filled == FillCache(self)
    IN  IF ~filled.ok THEN [out |-> filled, self |-> self]
        ELSE LET p == AffApply(filled.val.iaffine, lng, lat)
             IN  [out |-> Ok(Arr(<<2>>, <<Trunc(p[1]), Trunc(p[2])>>)),
                  self |-> filled.val]

AffineFwd(self, x, y) == Ok(AffApply(self.affine, x, y))

\* =================================================================
\* The transforms as a state machine
\* =================================================================
Zeros(n) == [i \in 1..n |-> R(0)]

Srs == [str |-> "EPSG:4326"]
RpcMetas ==
    [lineNumCoefs : {Unit(3)}, sampleNumCoefs : {Unit(2)},
     lineDenCoefs : {Unit(1)}, sampleDenCoefs : {VAdd(Unit(1), Unit(8))},
     lonScale : {R(2)}, latScale : {R(1)}, heightScale : {R(1)},
     lonOffset : {R(1)}, latOffset : {R(0)}, heightOffset : {R(0)},
     lineScale : {R(2), R(3)}, sampleScale : {R(1)},
     lineOffset : {R(1)}, sampleOffset : {R(2)},
     spatialReferenceSystem : {Srs}]
\* the last one is degenerate: its matrix has no inverse
Georefs ==
    [translateX : {R(1)}, scaleX : {R(2)}, shearX : {R(0), R(1)},
     translateY : {R(0)}, shearY : {R(0)}, scaleY : {R(-2)},
     spatialReferenceSystemCode : {Srs}]
    \cup
    [translateX : {R(1)}, scaleX : {R(0)}, shearX : {R(0)},
     translateY : {R(0)}, shearY : {R(0)}, scaleY : {R(1)},
     spatialReferenceSystemCode : {Srs}]

\* shifts handed to + and -: pairs in three representations, and malformed ones
\* a shift and its negation
Pairs == {<<R(1), R(-2)>>, <<R(-1), R(2)>>}
ShiftArgs ==
    {PySeq(k, p) : k \in {"list", "tuple", "ndarray"}, p \in Pairs}
    \cup {PyNum("int", R(1)), PySeq("list", <<R(1), R(1), R(-1)>>),
          PySeq("ndarray", <<R(1), R(-1), R(1)>>)}

PixVals == {R(0), R(3)}           \* pixel coordinates
PixPoints == {<<R(0), R(3)>>, <<R(3), R(3)>>}
GeoPoints == {<<R(1), Q(3, 2)>>, <<Q(3, 2), R(1)>>}

\* coordinate arrays for the batch entry points: N x 2 arrays whose rows
\* alternate between two points, and one array of each other shape
CoordRows(n, p, q) == [i \in 1..n |-> IF i % 2 = 1 THEN p ELSE q]
GoodCoords ==
    {Coords("ndarray", <<n, 2>>, CoordRows(n, pq[1], pq[2])) :
        n \in 1..MaxN, pq \in {x \in PixPoints \X PixPoints : x[1] # x[2]}}
BadCoords ==
    UNION {{Coords("ndarray", <<n>>, Zeros(n)),
            Coords("ndarray", <<n, 1>>, [i \in 1..n |-> Zeros(1)]),
            Coords("ndarray", <<n, 3>>, [i \in 1..n |-> Zeros(3)]),
            Coords("ndarray", <<n, 2, 1>>, [i \in 1..n |-> <<Zeros(1), Zeros(1)>>])} :
           n \in 1..MaxN}
CoordArrays == GoodCoords \cup BadCoords
\* arrays of one row: the 1 x 2 ones, a 1-d one and a 1 x 3 one
RowArrays ==
    {c \in GoodCoords : c.shape[1] = 1}
    \cup {c \in BadCoords : c.shape[1] = 1 /\ (Len(c.shape) = 1 \/ c.shape = <<1, 3>>)}

IsRpc(i) == heap[i].cls = "RatPolyTransform"
IsAffine(i) == heap[i].cls = "AffineTransform"
Call(op, i, args, out) == [op |-> op, obj |-> i, args |-> args, out |-> out]
UnchangedRest == UNCHANGED <<meta, table, toa, pc, treq, tres>>

\* t + other and t - other: a new object on success, the receiver untouched
Translate(op, i, other, out) ==
    /\ last' = Call(op, i, [other |-> other], out)
    /\ heap' = IF out.ok
               THEN Append(heap, [out.val EXCEPT !.born.parent = i])
               ELSE heap
    /\ UnchangedRest

Add ==
    \E i \in DOMAIN heap, other \in ShiftArgs :
        /\ Len(heap) < MaxObjs
        /\ Translate("add", i, other, TfAdd(heap[i], other))

Sub ==
    \E i \in DOMAIN heap, other \in ShiftArgs :
        /\ Len(heap) < MaxObjs
        /\ Translate("sub", i, other, TfSub(heap[i], other))

AffFwd ==
    \E i \in DOMAIN heap, p \in PixPoints :
        /\ IsAffine(i)
        /\ last' = Call("fwd", i, [x |-> p[1], y |-> p[2]], AffineFwd(heap[i], p[1], p[2]))
        /\ UNCHANGED heap /\ UnchangedRest

AffRev ==
    \E i \in DOMAIN heap, p \in GeoPoints :
        LET r == AffineRev(heap[i], p[1], p[2])
        IN  /\ IsAffine(i)
            /\ last' = Call("rev", i, [lng |-> p[1], lat |-> p[2]], r.out)
            /\ heap' = [heap EXCEPT ![i] = r.self]
            /\ UnchangedRest

AffCall(arrays) ==
    \E i \in DOMAIN heap, c \in arrays :
        /\ IsAffine(i)
        /\ last' = Call("call", i, [coords |-> c], AffineCall(heap[i], c))
        /\ UNCHANGED heap /\ UnchangedRest

AffInverse(arrays) ==
    \E i \in DOMAIN heap, c \in arrays :
        LET r == AffineInverse(heap[i], c)
        IN  /\ IsAffine(i)
            /\ last' = Call("inverse", i, [coords |-> c], r.out)
            /\ heap' = [heap EXCEPT ![i] = r.self]
            /\ UnchangedRest

Init ==
    /\ heap \in {<<from_rpcs(m)>> : m \in RpcMetas}
                \cup {<<from_georef(g)>> :
                         g \in {h \in Georefs : h.shearX = R(1) \/ h.scaleX = R(0)}}
    /\ last = None
    /\ IdleCal /\ IdleThreads

Next ==
    \/ Add
    \/ Sub
    \/ AffFwd
    \/ AffRev
    \/ AffCall(RowArrays)
    \/ AffInverse(RowArrays)
Spec == Init /\ [][Next]_vars

\* =================================================================
\* Claims about translate and the inverse cache (under Spec)
\* =================================================================
Parent(i) == heap[i].born.parent
Translated(i) == Parent(i) # 0
NoBorn(t) == [t EXCEPT !.born = 0]

\* t and u answer alike on the sample coordinates
SameAnswers(t, u) ==
    IF t.cls = "RatPolyTransform"
    THEN /\ \A p \in PixPoints : FwdPoint(t, p[1], p[2]) = FwdPoint(u, p[1], p[2])
         /\ \A g \in GeoPoints :
               RevPoint(t, g[1], g[2], R(0)) = RevPoint(u, g[1], g[2], R(0))
    ELSE /\ \A p \in PixPoints : AffApply(t.affine, p[1], p[2]) = AffApply(u.affine, p[1], p[2])
         /\ AffInvert(t.affine) = AffInvert(u.affine)

\* i was made by translating its parent by s, and the parent by -s
RoundTrip(i) ==
    /\ Translated(i) /\ Translated(Parent(i))
    /\ heap[i].born.shift = VNeg(heap[Parent(i)].born.shift)

\* C1: translating T by s and the result by (-s0, -s1) gives a transform that
\* answers as T does; the RPC pixel offset, and the Affine matrix, are T's.
C1_TranslateRoundTrip ==
    \A i \in DOMAIN heap :
        RoundTrip(i) =>
            LET t == heap[Parent(Parent(i))]
            IN  /\ SameAnswers(heap[i], t)
                /\ IsRpc(i) => heap[i].px_offset = t.px_offset
                /\ IsAffine(i) => heap[i].affine = t.affine

C1_Witness ==
    /\ \E i \in DOMAIN heap : RoundTrip(i) /\ IsRpc(i)
                                /\ heap[Parent(i)].px_offset # heap[i].px_offset
    /\ last # None /\ last.op = "add" /\ last.out.ok

\* the shift with every element negated, in the same representation
Negation(o) == [o EXCEPT !.v = VNeg(o.v)]

SameOutcome(r1, r2) ==
    /\ r1.ok = r2.ok
    /\ r1.ok => NoBorn(r1.val) = NoBorn(r2.val)

\* C2: T - s ends as T + (-s) does, for every representation of s: both fail,
\* or both return transforms with the same parameters.
C2_SubIsAddOfNegation ==
    (last # None /\ last.op = "sub") =>
        SameOutcome(last.out, TfAdd(heap[last.obj], Negation(last.args.other)))

\* the same statement for shifts that are not numpy arrays (holds)
C2_ExceptArrays ==
    (last # None /\ last.op = "sub" /\ last.args.other.kind # "ndarray") =>
        SameOutcome(last.out, TfAdd(heap[last.obj], Negation(last.args.other)))

\* C10: a translated transform differs from its receiver in its pixel placement
\* only: the spatial reference system is the receiver's, and for the RPC variant
\* so is every parameter but the pixel offset, which is the receiver's minus the shift.
C10_TranslateKeepsTheRest ==
    \A i \in DOMAIN heap :
        Translated(i) =>
            LET t == heap[Parent(i)]
            IN  /\ heap[i].proj = t.proj
                /\ IsRpc(i) =>
                      /\ heap[i].A = t.A /\ heap[i].B = t.B
                      /\ heap[i].offset = t.offset /\ heap[i].scale = t.scale
                      /\ heap[i].px_scale = t.px_scale
                      /\ heap[i].px_offset = VSub(t.px_offset, heap[i].born.shift)

\* the same statement without the RPC variant's spatial reference system (holds)
C10_ExceptRpcProj ==
    \A i \in DOMAIN heap :
        Translated(i) =>
            LET t == heap[Parent(i)]
            IN  /\ IsAffine(i) => heap[i].proj = t.proj
                /\ IsRpc(i) =>
                      /\ heap[i].A = t.A /\ heap[i].B = t.B
                      /\ heap[i].offset = t.offset /\ heap[i].scale = t.scale
                      /\ heap[i].px_scale = t.px_scale
                      /\ heap[i].px_offset = VSub(t.px_offset, heap[i].born.shift)

\* a cached inverse is the inverse of the object's own matrix
CacheInv ==
    \A i \in DOMAIN heap :
        (IsAffine(i) /\ heap[i].iaffine # None) =>
            AffMul(heap[i].iaffine, heap[i].affine) = AffIdentity

ReverseCallOn(i, call) == call.op \in {"rev", "inverse"} /\ call.obj = i /\ call.out.ok

\* one step's effect on the caches
CacheStep ==
    /\ \A i \in DOMAIN heap :
          IsAffine(i) =>
            /\ heap[i].iaffine # None => heap'[i].iaffine = heap[i].iaffine
            /\ (heap[i].iaffine = None /\ heap'[i].iaffine # None) => ReverseCallOn(i, last')
            /\ ReverseCallOn(i, last') => heap'[i].iaffine # None
    /\ \A j \in DOMAIN heap' \ DOMAIN heap :
          heap'[j].cls = "AffineTransform" => heap'[j].iaffine = None

\* C8: a cached inverse is unset or the inverse of its own matrix; it is set by
\* the first successful reverse or invert call on that object and by nothing
\* else, never changes afterwards, and a translated transform starts unset.
C8_InverseCache == []CacheInv /\ [][CacheStep]_vars

C8_Witness ==
    \E i \in DOMAIN heap :
        /\ IsAffine(i) /\ Translated(i) /\ heap[i].iaffine = None
        /\ heap[Parent(i)].iaffine # None
        /\ \E j \in DOMAIN heap : j # i /\ Parent(j) = Parent(i) /\ heap[j].iaffine # None

\* =================================================================
\* The coordinate entry points called on one transform of each variant
\* =================================================================
\* batches of n geographic coordinates
GeoBatch(n) == [i \in 1..n |-> IF i % 2 = 1 THEN R(1) ELSE Q(3, 2)]
GeoBatchB(n) == [i \in 1..n |-> IF i % 2 = 1 THEN Q(3, 2) ELSE R(1)]
RevArgs ==
    {PyNum("int", R(1)), PyNum("float", Q(3, 2)), PySeq("list", <<R(1)>>), PyStr, PyNone}
    \cup {PySeq("tuple", GeoBatch(n)) : n \in 1..MaxN}
    \cup {PySeq("ndarray", GeoBatch(n)) : n \in 1..MaxN}
    \cup {PySeq("ndarray", GeoBatchB(1))}
\* batches of n pixel coordinates
PixBatch(n) == [i \in 1..n |-> IF i % 2 = 1 THEN R(0) ELSE R(3)]
PixBatchB(n) == [i \in 1..n |-> IF i % 2 = 1 THEN R(3) ELSE R(0)]
FwdBatches == {PixBatch(n) : n \in 1..MaxN} \cup {PixBatchB(MaxN)}
FwdZs == {None} \cup {[seq |-> Zeros(n)] : n \in 1..MaxN}

RpcFwdPoint ==
    \E i \in DOMAIN heap, x \in PixVals, y \in PixVals :
        /\ IsRpc(i)
        /\ last' = Call("fwd", i, [nd |-> 0, x |-> x, y |-> y, z |-> None],
                        Ok(RatPolyFwd(heap[i], 0, x, y, None)))
        /\ UNCHANGED heap /\ UnchangedRest

RpcFwdBatch ==
    \E i \in DOMAIN heap, x \in FwdBatches, y \in FwdBatches, z \in FwdZs :
        /\ IsRpc(i)
        /\ last' = Call("fwd", i, [nd |-> 1, x |-> x, y |-> y, z |-> z],
                        Ok(RatPolyFwd(heap[i], 1, x, y, z)))
        /\ UNCHANGED heap /\ UnchangedRest

RpcRev ==
    \E i \in DOMAIN heap, lng \in RevArgs, lat \in RevArgs :
        /\ IsRpc(i)
        /\ last' = Call("rev", i, [lng |-> lng, lat |-> lat], RatPolyRev(heap[i], lng, lat))
        /\ UNCHANGED heap /\ UnchangedRest

RpcCall ==
    \E i \in DOMAIN heap, c \in CoordArrays :
        /\ IsRpc(i)
        /\ last' = Call("call", i, [coords |-> c], RatPolyCall(heap[i], c))
        /\ UNCHANGED heap /\ UnchangedRest

InitCalls ==
    /\ heap \in {<<from_rpcs(m), from_georef(g)>> :
                    m \in RpcMetas, g \in {h \in Georefs : h.shearX = R(0)}}
    /\ last = None
    /\ IdleCal /\ IdleThreads

NextCalls ==
    \/ RpcFwdPoint
    \/ RpcFwdBatch
    \/ RpcRev
    \/ RpcCall
    \/ AffCall(CoordArrays)
    \/ AffInverse(CoordArrays)
SpecCalls == InitCalls /\ [][NextCalls]_vars

Called(op) == last # None /\ last.op = op
Receiver == heap[last.obj]

\* C3: evaluate, apply and invert, given an array that is not N x 2, fail with
\* the shape error (NotImplementedError or the shape assertion's AssertionError)
\* and return nothing.
C3_BadShapeFails ==
    ((Called("call") \/ Called("inverse")) /\ last.args.coords.kind = "ndarray"
        /\ ~ShapeOk(last.args.coords)) =>
        /\ ~last.out.ok
        /\ last.out.err \in {"NotImplementedError", "AssertionError"}

C3_Witness ==
    /\ Called("call") /\ Receiver.cls = "RatPolyTransform"
    /\ last.args.coords.shape = <<2, 3>>
    /\ ~last.out.ok

\* the kinds rev's own error message names as accepted
Accepted(o) == o.kind \in {"int", "float", "tuple", "ndarray"}

\* C4: reverse computes a result for lon and lat of any two accepted kinds
\* (with as many longitudes as latitudes), and fails with ValueError exactly
\* when one of them is not numeric or array-like.
C4_RevAcceptsAnyCombination ==
    (Called("rev") /\ Receiver.cls = "RatPolyTransform"
        /\ PyLen(last.args.lng) = PyLen(last.args.lat)) =>
        /\ (Accepted(last.args.lng) /\ Accepted(last.args.lat)) => last.out.ok
        /\ ~(Accepted(last.args.lng) /\ Accepted(last.args.lat)) =>
              (~last.out.ok /\ last.out.err = "ValueError")

\* the same statement for the combinations the two isinstance tests let through:
\* both of int, float, tuple, or both numpy arrays (holds)
SameFamily(a, b) ==
    \/ a.kind \in {"int", "float", "tuple"} /\ b.kind \in {"int", "float", "tuple"}
    \/ a.kind = "ndarray" /\ b.kind = "ndarray"
    \/ ~Accepted(a) \/ ~Accepted(b)
C4_WithinOneFamily ==
    (Called("rev") /\ Receiver.cls = "RatPolyTransform"
        /\ SameFamily(last.args.lng, last.args.lat)) => C4_RevAcceptsAnyCombination

\* result i of a batch result of forward ((3, N)) and of reverse ((2, N), or (2,))
Column(a, i) ==
    IF NDim(a) = 1 THEN a.data ELSE [k \in 1..a.shape[1] |-> a.data[k][i]]
Columns(a) == IF NDim(a) = 1 THEN 1 ELSE a.shape[2]

FwdBatchCalled == Called("fwd") /\ last.args.nd = 1
RevBatchCalled ==
    /\ Called("rev") /\ Receiver.cls = "RatPolyTransform" /\ last.out.ok
    /\ last.args.lng.kind = last.args.lat.kind

\* C5: forward and reverse on a batch return one result per coordinate given,
\* none dropped, and result i is what the call on coordinate i alone returns.
C5_BatchIsElementwise ==
    /\ FwdBatchCalled =>
          /\ Columns(last.out.val) = Len(last.args.x)
          /\ Columns(last.out.val) = Len(last.args.y)
          /\ \A i \in 1..Len(last.args.x) :
                Column(last.out.val, i) =
                    RatPolyFwd(Receiver, 0, last.args.x[i], last.args.y[i], None).data
    /\ RevBatchCalled =>
          /\ Columns(last.out.val) = PyLen(last.args.lng)
          /\ \A i \in 1..PyLen(last.args.lng) :
                Column(last.out.val, i) =
                    RatPolyRev(Receiver, PyNum("float", last.args.lng.v[i]),
                               PyNum("float", last.args.lat.v[i])).val.data

\* the same statement for batches whose x, y (and z) have one length (holds)
C5_WhenLengthsAgree ==
    (FwdBatchCalled =>
        (Len(last.args.x) = Len(last.args.y)
            /\ ZLen(last.args.x, last.args.z) = Len(last.args.x)))
    => C5_BatchIsElementwise

RpcCallReturned ==
    /\ Called("call") /\ Receiver.cls = "RatPolyTransform"
    /\ ShapeOk(last.args.coords)

\* C7: evaluate on an N x 2 array returns an N x 2 array whose row i is
\* forward(coords[i, 0], coords[i, 1]).
C7_EvaluateIsRowwiseForward ==
    RpcCallReturned =>
        /\ last.out.ok
        /\ last.out.val.shape = <<last.args.coords.shape[1], 2>>
        /\ \A i \in 1..last.args.coords.shape[1] :
              last.out.val.data[i] =
                  SubSeq(RatPolyFwd(Receiver, 0, last.args.coords.data[i][1],
                                    last.args.coords.data[i][2], None).data, 1, 2)

\* what evaluate returns instead: a 1 x 3 x N array holding forward's
\* (lon, lat, height) of row i at [0, :, i] (holds)
C7_ReturnsOneByThreeByN ==
    RpcCallReturned =>
        /\ last.out.ok
        /\ last.out.val.shape = <<1, 3, last.args.coords.shape[1]>>
        /\ \A i \in 1..last.args.coords.shape[1] :
              [k \in 1..3 |-> last.out.val.data[1][k][i]] =
                  RatPolyFwd(Receiver, 0, last.args.coords.data[i][1],
                             last.args.coords.data[i][2], None).data

\* =================================================================
\* Threads calling into one shared Affine transform, without a lock
\* =================================================================
\* Each thread makes one call. rev and inverse run in three steps that other
\* threads may interleave with: the test of the cache, the computation and
\* store of the inverse, and the read of the cache for the result.
Threads == 1..NumThreads

Req(op, args) == [op |-> op, args |-> args, wrote |-> FALSE]
ThreadReqs ==
    {Req("rev", [lng |-> p[1], lat |-> p[2]]) : p \in GeoPoints}
    \cup {Req("inverse", [coords |-> c]) : c \in RowArrays}
    \cup {Req("fwd", [x |-> R(0), y |-> R(3)])}
    \cup {Req("call", [coords |-> Coords("ndarray", <<1, 2>>, <<<<R(3), R(0)>>>>)])}

Shared == heap[1]

\* fwd and __call__ read only the matrix: one step
ThForward(t) ==
    /\ pc[t] = "start" /\ treq[t].op \in {"fwd", "call"}
    /\ tres' = [tres EXCEPT ![t] =
                  IF treq[t].op = "fwd"
                  THEN AffineFwd(Shared, treq[t].args.x, treq[t].args.y)
                  ELSE AffineCall(Shared, treq[t].args.coords)]
    /\ pc' = [pc EXCEPT ![t] = "done"]
    /\ UNCHANGED <<heap, treq, last, meta, table, toa>>

\* entry of rev and inverse; inverse asserts the shape of its argument first
ThEnter(t) ==
    /\ pc[t] = "start" /\ treq[t].op \in {"rev", "inverse"}
    /\ IF treq[t].op = "inverse" /\ ~ShapeOk(treq[t].args.coords)
       THEN /\ tres' = [tres EXCEPT ![t] = Raise("AssertionError")]
            /\ pc' = [pc EXCEPT ![t] = "done"]
       ELSE /\ pc' = [pc EXCEPT ![t] = "check"]
            /\ UNCHANGED tres
    /\ UNCHANGED <<heap, treq, last, meta, table, toa>>

\* if self._iaffine is None:
ThCheck(t) ==
    /\ pc[t] = "check"
    /\ pc' = [pc EXCEPT ![t] = IF Shared.iaffine = None THEN "store" ELSE "use"]
    /\ UNCHANGED <<heap, treq, tres, last, meta, table, toa>>

\* self._iaffine = ~self._affine
ThStore(t) ==
    /\ pc[t] = "store"
    /\ LET inv == AffInvert(Shared.affine)
       IN  IF inv.ok
           THEN /\ heap' = [heap EXCEPT ![1] = StoreCache(Shared, inv.val)]
                /\ treq' = [treq EXCEPT ![t].wrote = TRUE]
                /\ pc' = [pc EXCEPT ![t] = "use"]
                /\ UNCHANGED tres
           ELSE /\ tres' = [tres EXCEPT ![t] = inv]
                /\ pc' = [pc EXCEPT ![t] = "done"]
                /\ UNCHANGED <<heap, treq>>
    /\ UNCHANGED <<last, meta, table, toa>>

\* the result computed from whatever self._iaffine holds now
UseCache(self, req) ==
    IF self.iaffine = None THEN Raise("TypeError")
    ELSE IF req.op = "rev"
    THEN LET p == AffApply(self.iaffine, req.args.lng, req.args.lat)
         IN  Ok(Arr(<<2>>, <<Trunc(p[1]), Trunc(p[2])>>))
    ELSE Ok(ITransform(self.iaffine, req.args.coords))

ThUse(t) ==
    /\ pc[t] = "use"
    /\ tres' = [tres EXCEPT ![t] = UseCache(Shared, treq[t])]
    /\ pc' = [pc EXCEPT ![t] = "done"]
    /\ UNCHANGED <<heap, treq, last, meta, table, toa>>

InitThreads ==
    /\ heap \in {<<from_georef(g)>> : g \in Georefs}
    /\ treq \in [Threads -> ThreadReqs]
    /\ pc = [t \in Threads |-> "start"]
    /\ tres = [t \in Threads |-> None]
    /\ last = None
    /\ IdleCal

NextThreads ==
    \E t \in Threads :
        \/ ThForward(t)
        \/ ThEnter(t)
        \/ ThCheck(t)
        \/ ThStore(t)
        \/ ThUse(t)
SpecThreads == InitThreads /\ [][NextThreads]_vars

\* one call run alone, start to end: [out, self]
Alone(self, req) ==
    IF req.op = "rev" THEN AffineRev(self, req.args.lng, req.args.lat)
    ELSE IF req.op = "inverse" THEN AffineInverse(self, req.args.coords)
    ELSE IF req.op = "fwd"
    THEN [out |-> AffineFwd(self, req.args.x, req.args.y), self |-> self]
    ELSE [out |-> AffineCall(self, req.args.coords), self |-> self]

\* the transform as constructed, and after the first k calls run one by one
Fresh == [Shared EXCEPT !.iaffine = None]
RECURSIVE AfterAlone(_)
AfterAlone(k) == IF k = 0 THEN Fresh ELSE Alone(AfterAlone(k - 1), treq[k]).self

AllDone == \A t \in Threads : pc[t] = "done"

\* C9: under every interleaving of the steps of the calls, each call returns
\* what it returns when run alone, the cache a call reads for its result is
\* the inverse of the matrix, and when all calls have returned the cache is
\* what the calls run one after another leave: the inverse of the matrix
\* once a reverse-direction call has returned a result.
C9_ConcurrentReadsSafe ==
    /\ \A t \in Threads :
          /\ pc[t] = "done" => tres[t] = Alone(Fresh, treq[t]).out
          /\ pc[t] = "use" =>
                /\ Shared.iaffine # None
                /\ AffMul(Shared.iaffine, Shared.affine) = AffIdentity
    /\ AllDone =>
          /\ Shared = AfterAlone(NumThreads)
          /\ (\E t \in Threads : treq[t].op \in {"rev", "inverse"} /\ tres[t].ok)
                => /\ Shared.iaffine # None
                   /\ AffMul(Shared.iaffine, Shared.affine) = AffIdentity

\* every thread found the cache unset and stored the inverse, and every call
\* returned a result
C9_Witness ==
    /\ AllDone
    /\ \A t \in Threads : treq[t].wrote /\ tres[t].ok
    /\ \E t \in Threads : treq[t].op = "rev"
    /\ \E t \in Threads : treq[t].op = "inverse"

====
